---------------------------- MODULE Spec2Model ----------------------------
(***************************************************************************)
(* chemviz-analytics: the CSV ingestion pipeline of backend/analytics      *)
(* (services.py), the retention hook of EquipmentDataset (models.py) and   *)
(* the views that call them (views.py), over an SQLite store               *)
(* (settings.py DATABASES).                                                *)
(*                                                                         *)
(* Text is a tuple of one-character strings, so that strip() and lower()   *)
(* are computed.  A float is a record [k, v]: k = "fin" with the value v,  *)
(* or "pinf", "ninf", "nan" (v = 0); a database NULL is k = "null".  CSV   *)
(* cell values are whole numbers; the statistics, which the code rounds    *)
(* to 4 decimals, are kept in units of 10^-4.                              *)
(***************************************************************************)
EXTENDS Integers, Sequences, FiniteSets, TLC

\* ------------------------------------------------------------------ bounds
\* requests (uploads, deletes, admin saves) made after deployment
MaxRequests == 3
\* data rows of an enumerated CSV in the validator's specification
MaxRows == 2

\* the calls made of a pure function called alone
MaxCalls == 2

\* --------------------------------------------------------------- constants
\* settings.MAX_DATASETS_RETAINED
MAX_DATASETS_RETAINED == 5
\* round(x, 4) in compute_statistics
Decimals == 4
\* seed_demo_data: "Seed permanent demo datasets (5 CSVs)"
SampleCount == 5

Scale == 10 ^ Decimals

\* -------------------------------------------------------------------- text
UpperCase ==
    <<"A","B","C","D","E","F","G","H","I","J","K","L","M",
      "N","O","P","Q","R","S","T","U","V","W","X","Y","Z">>

LowerCase ==
    <<"a","b","c","d","e","f","g","h","i","j","k","l","m",
      "n","o","p","q","r","s","t","u","v","w","x","y","z">>

Whitespace == {" ", "\t", "\n", "\r"}

\* str.lower() on one character
LowerChar(c) ==
    IF \E i \in 1..Len(UpperCase) : UpperCase[i] = c
    THEN LowerCase[CHOOSE i \in 1..Len(UpperCase) : UpperCase[i] = c]
    ELSE c

\* str.lower()
Lower(s) == [i \in 1..Len(s) |-> LowerChar(s[i])]

\* str.lstrip(): without the leading run of whitespace
LStrip(s) ==
    LET lead == {i \in 1..Len(s) : \A j \in 1..i : s[j] \in Whitespace}
    IN  SubSeq(s, Cardinality(lead) + 1, Len(s))

\* str.rstrip(): without the trailing run of whitespace
RStrip(s) ==
    LET trail == {i \in 1..Len(s) : \A j \in i..Len(s) : s[j] \in Whitespace}
    IN  SubSeq(s, 1, Len(s) - Cardinality(trail))

\* str.strip()
Strip(s) == RStrip(LStrip(s))

\* ------------------------------------------------------------------ floats
Fin(n) == [k |-> "fin", v |-> n]
NaN == [k |-> "nan", v |-> 0]
PInf == [k |-> "pinf", v |-> 0]
NInf == [k |-> "ninf", v |-> 0]
Null == [k |-> "null", v |-> 0]

\* x < 0 on a float (False for NaN)
IsNegative(x) == (x.k = "fin" /\ x.v < 0) \/ x.k = "ninf"

\* --------------------------------------------------------------- CSV cells
\* A parsed cell of pd.read_csv: missing ("nan": the empty field and the
\* other default na_values), text that is no number ("str"), a finite number
\* or an infinity ("inf", "-inf" parse as floats).
NaCell == [k |-> "nan", s |-> <<>>, v |-> 0]
StrCell(s) == [k |-> "str", s |-> s, v |-> 0]
NumCell(n) == [k |-> "fin", s |-> <<>>, v |-> n]
PInfCell == [k |-> "pinf", s |-> <<>>, v |-> 0]
NInfCell == [k |-> "ninf", s |-> <<>>, v |-> 0]

\* the float of a numeric cell
CellFloat(c) == [k |-> c.k, v |-> c.v]

\* ------------------------------------------------------- column normalizer
NoneValue == "None"

REQUIRED_COLUMNS ==
    << [key |-> "equipment_name",
        variations |-> {<<"e","q","u","i","p","m","e","n","t"," ","n","a","m","e">>,
                        <<"e","q","u","i","p","m","e","n","t","_","n","a","m","e">>,
                        <<"n","a","m","e">>,
                        <<"e","q","u","i","p","m","e","n","t","n","a","m","e">>}],
       [key |-> "equipment_type",
        variations |-> {<<"e","q","u","i","p","m","e","n","t"," ","t","y","p","e">>,
                        <<"e","q","u","i","p","m","e","n","t","_","t","y","p","e">>,
                        <<"t","y","p","e">>,
                        <<"e","q","u","i","p","m","e","n","t","t","y","p","e">>}],
       [key |-> "flowrate",
        variations |-> {<<"f","l","o","w","r","a","t","e">>,
                        <<"f","l","o","w","_","r","a","t","e">>,
                        <<"f","l","o","w"," ","r","a","t","e">>,
                        <<"f","l","o","w">>}],
       [key |-> "pressure",
        variations |-> {<<"p","r","e","s","s","u","r","e">>,
                        <<"p","r","e","s","s">>}],
       [key |-> "temperature",
        variations |-> {<<"t","e","m","p","e","r","a","t","u","r","e">>,
                        <<"t","e","m","p">>}] >>

\* REQUIRED_COLUMNS.keys()
RequiredKeys == {REQUIRED_COLUMNS[i].key : i \in 1..Len(REQUIRED_COLUMNS)}

numeric_columns == <<"flowrate", "pressure", "temperature">>

NumericKeys == {numeric_columns[i] : i \in 1..Len(numeric_columns)}

\* a normalizer that also accepts a header that begins an alias
NormalizeByPrefix(col) ==
    LET col_lower == Lower(Strip(col))
        hits == {i \in 1..Len(REQUIRED_COLUMNS) :
                    \E v \in REQUIRED_COLUMNS[i].variations :
                        /\ Len(col_lower) >= 3
                        /\ Len(col_lower) <= Len(v)
                        /\ SubSeq(v, 1, Len(col_lower)) = col_lower}
    IN  IF hits = {} THEN NoneValue
        ELSE REQUIRED_COLUMNS[CHOOSE i \in hits : \A j \in hits : i <= j].key

\* the first key, in table order, whose variations hold the stripped,
\* lower-cased column name; None when there is none
normalize_column_name(col) ==
    LET col_lower == Lower(Strip(col))
        hits == {i \in 1..Len(REQUIRED_COLUMNS) :
                    col_lower \in REQUIRED_COLUMNS[i].variations}
    IN  IF hits = {} THEN NoneValue
        ELSE REQUIRED_COLUMNS[CHOOSE i \in hits : \A j \in hits : i <= j].key


\* --------------------------------------------------------------- validator
Digits == <<"1","2","3","4","5","6","7","8","9">>

\* pd.read_csv renames the k-th repeat of a header to "<header>.<k>"
MangleDupeCols(header) ==
    [i \in 1..Len(header) |->
        LET k == Cardinality({j \in 1..(i - 1) : header[j] = header[i]})
        IN  IF k = 0 THEN header[i] ELSE header[i] \o <<".", Digits[k]>>]

\* pd.read_csv(StringIO(file_content)): the columns and the data rows of a
\* text that parses; blank lines are no rows
ReadCsv(file_content) ==
    [columns |-> MangleDupeCols(file_content.header), rows |-> file_content.rows]

\* the positions of the columns that column_mapping renames to key
ColumnsOf(columns, key) ==
    {i \in 1..Len(columns) : normalize_column_name(columns[i]) = key}

\* set(column_mapping.values())
FoundColumns(columns) ==
    {normalize_column_name(columns[i]) : i \in 1..Len(columns)} \ {NoneValue}

\* a validator that names only the first missing field
MissingColumnsFirstOnly(columns) ==
    LET missing == RequiredKeys \ FoundColumns(columns)
    IN  IF missing = {} THEN {}
        ELSE {REQUIRED_COLUMNS[CHOOSE i \in 1..Len(REQUIRED_COLUMNS) :
                  /\ REQUIRED_COLUMNS[i].key \in missing
                  /\ \A j \in 1..(i - 1) : REQUIRED_COLUMNS[j].key \notin missing].key}

\* required - found_columns
MissingColumns(columns) == RequiredKeys \ FoundColumns(columns)

\* the positions of the renamed columns named in subset
SubsetColumns(columns, subset) == UNION {ColumnsOf(columns, key) : key \in subset}

\* a dropna without subset: the rows with no missing value in any column
DropNaAnywhere(rows, idx) ==
    SelectSeq(rows, LAMBDA r : \A i \in 1..Len(r) : r[i].k # "nan")

\* df.dropna(subset=...): the rows with no missing value in those columns
DropNa(rows, idx) == SelectSeq(rows, LAMBDA r : \A i \in idx : r[i].k # "nan")

\* pd.to_numeric(x, errors='coerce') on one cell
ToNumeric(c) == IF c.k = "str" THEN NaCell ELSE c

\* df[col] = pd.to_numeric(df[col], errors='coerce') for the numeric columns
CoerceRows(rows, idx) ==
    [r \in 1..Len(rows) |->
        [i \in 1..Len(rows[r]) |->
            IF i \in idx THEN ToNumeric(rows[r][i]) ELSE rows[r][i]]]

\* astype(str) on a cell of a string column
AsStr(c) ==
    CASE c.k = "str" -> c.s
      [] c.k = "nan" -> <<"n","a","n">>

\* the only column renamed to key
TheColumn(columns, key) == CHOOSE i \in ColumnsOf(columns, key) : TRUE

\* one row of the validated table (lines 111 and 153-154)
CleanRow(columns, r) ==
    [equipment_name |-> Strip(AsStr(r[TheColumn(columns, "equipment_name")])),
     equipment_type |-> Lower(Strip(AsStr(r[TheColumn(columns, "equipment_type")]))),
     flowrate |-> CellFloat(r[TheColumn(columns, "flowrate")]),
     pressure |-> CellFloat(r[TheColumn(columns, "pressure")]),
     temperature |-> CellFloat(r[TheColumn(columns, "temperature")])]

Warning(kind, n) == [kind |-> kind, n |-> n]

\* a sanity check that looks at all three numeric columns, temperature too
AnyNegativeNumber(columns, rows, key) ==
    \E r \in 1..Len(rows) : \E k \in NumericKeys :
        IsNegative(CellFloat(rows[r][TheColumn(columns, k)]))

\* (df[col] < 0).any()
AnyNegative(columns, rows, key) ==
    \E r \in 1..Len(rows) : IsNegative(CellFloat(rows[r][TheColumn(columns, key)]))

\* a raise: the exception class, what it says, and for "missing columns" the
\* names it lists
Raised(exc, error, missing, found) ==
    [ok |-> FALSE, exc |-> exc, error |-> error, missing |-> missing,
     found |-> found, table |-> <<>>, warnings |-> <<>>]

Returned(table, warnings) ==
    [ok |-> TRUE, exc |-> "none", error |-> "none", missing |-> {},
     found |-> <<>>, table |-> table, warnings |-> warnings]

\* the first numeric column that the rename left duplicated, if any:
\* pd.to_numeric(df[col]) is then given a DataFrame and raises TypeError
DuplicatedNumeric(columns) ==
    \E key \in NumericKeys : Cardinality(ColumnsOf(columns, key)) > 1

\* df['equipment_name'] or df['equipment_type'] is a DataFrame, which has no
\* .str accessor: AttributeError
DuplicatedString(columns) ==
    \E key \in {"equipment_name", "equipment_type"} :
        Cardinality(ColumnsOf(columns, key)) > 1

\* a validator that checks the required columns before it looks for rows
ValidateColumnsFirst(file_content) ==
    IF ~file_content.parsable
    THEN Raised("CSVValidationError", "parse", {}, <<>>)
    ELSE
    LET df == ReadCsv(file_content)
        columns == df.columns
    IN
    IF MissingColumns(columns) # {}
    THEN Raised("CSVValidationError", "missing_columns",
                MissingColumns(columns), columns)
    ELSE IF df.rows = <<>> \/ columns = <<>>
    THEN Raised("CSVValidationError", "empty", {}, <<>>)
    ELSE
    LET numIdx == SubsetColumns(columns, NumericKeys)
        initial_count == Len(df.rows)
        rows1 == DropNa(df.rows, numIdx)
        dropped_count == initial_count - Len(rows1)
        warnings1 == IF dropped_count > 0
                     THEN <<Warning("dropped_missing", dropped_count)>>
                     ELSE <<>>
    IN
    IF Len(rows1) = 0
    THEN Raised("CSVValidationError", "no_rows", {}, <<>>)
    ELSE IF DuplicatedNumeric(columns)
    THEN Raised("CSVValidationError", "invalid_numeric", {}, <<>>)
    ELSE
    LET before_count == Len(rows1)
        rows2 == DropNa(CoerceRows(rows1, numIdx), numIdx)
        warnings2 == IF Len(rows2) < before_count
                     THEN Append(warnings1,
                                 Warning("dropped_non_numeric", before_count - Len(rows2)))
                     ELSE warnings1
        warnings3 == IF AnyNegative(columns, rows2, "flowrate")
                     THEN Append(warnings2, Warning("negative_flowrate", 0))
                     ELSE warnings2
        warnings4 == IF AnyNegative(columns, rows2, "pressure")
                     THEN Append(warnings3, Warning("negative_pressure", 0))
                     ELSE warnings3
    IN
    IF DuplicatedString(columns)
    THEN Raised("AttributeError", "no_str_accessor", {}, <<>>)
    ELSE Returned([r \in 1..Len(rows2) |-> CleanRow(columns, rows2[r])], warnings4)

parse_and_validate_csv(file_content) ==
    IF ~file_content.parsable
    THEN Raised("CSVValidationError", "parse", {}, <<>>)
    ELSE
    LET df == ReadCsv(file_content)
        columns == df.columns
    IN
    IF df.rows = <<>> \/ columns = <<>>
    THEN Raised("CSVValidationError", "empty", {}, <<>>)
    ELSE IF MissingColumns(columns) # {}
    THEN Raised("CSVValidationError", "missing_columns",
                MissingColumns(columns), columns)
    ELSE
    LET numIdx == SubsetColumns(columns, NumericKeys)
        initial_count == Len(df.rows)
        rows1 == DropNa(df.rows, numIdx)
        dropped_count == initial_count - Len(rows1)
        warnings1 == IF dropped_count > 0
                     THEN <<Warning("dropped_missing", dropped_count)>>
                     ELSE <<>>
    IN
    IF Len(rows1) = 0
    THEN Raised("CSVValidationError", "no_rows", {}, <<>>)
    ELSE IF DuplicatedNumeric(columns)
    THEN Raised("CSVValidationError", "invalid_numeric", {}, <<>>)
    ELSE
    LET before_count == Len(rows1)
        rows2 == DropNa(CoerceRows(rows1, numIdx), numIdx)
        warnings2 == IF Len(rows2) < before_count
                     THEN Append(warnings1,
                                 Warning("dropped_non_numeric", before_count - Len(rows2)))
                     ELSE warnings1
        warnings3 == IF AnyNegative(columns, rows2, "flowrate")
                     THEN Append(warnings2, Warning("negative_flowrate", 0))
                     ELSE warnings2
        warnings4 == IF AnyNegative(columns, rows2, "pressure")
                     THEN Append(warnings3, Warning("negative_pressure", 0))
                     ELSE warnings3
    IN
    IF DuplicatedString(columns)
    THEN Raised("AttributeError", "no_str_accessor", {}, <<>>)
    ELSE Returned([r \in 1..Len(rows2) |-> CleanRow(columns, rows2[r])], warnings4)

\* -------------------------------------------------------------- statistics
\* the sum of a series of finite values
SumFin(xs) ==
    LET sum[i \in 0..Len(xs)] == IF i = 0 THEN 0 ELSE sum[i - 1] + xs[i].v
    IN  sum[Len(xs)]

HasKind(xs, k) == \E i \in 1..Len(xs) : xs[i].k = k

\* the nearest integer to a / n (n > 0); a tie would need 32 rows or more
RoundDiv(a, n) == (2 * a + n) \div (2 * n)

\* round(series.mean(), 4), in units of 10^-4
RoundedMean(xs) ==
    IF Len(xs) = 0 THEN NaN
    ELSE IF HasKind(xs, "pinf") /\ HasKind(xs, "ninf") THEN NaN
    ELSE IF HasKind(xs, "pinf") THEN PInf
    ELSE IF HasKind(xs, "ninf") THEN NInf
    ELSE Fin(RoundDiv(SumFin(xs) * Scale, Len(xs)))

Column(table, key) == [r \in 1..Len(table) |-> table[r][key]]

\* the finite values of a series
FiniteValues(xs) == {xs[i].v : i \in {j \in 1..Len(xs) : xs[j].k = "fin"}}

\* round(series.min(), 4), in units of 10^-4; NaN for the empty series
RoundedMin(xs) ==
    IF Len(xs) = 0 THEN NaN
    ELSE IF HasKind(xs, "ninf") THEN NInf
    ELSE IF FiniteValues(xs) = {} THEN PInf
    ELSE Fin(Scale * (CHOOSE v \in FiniteValues(xs) : \A w \in FiniteValues(xs) : v <= w))

\* round(series.max(), 4), in units of 10^-4; NaN for the empty series
RoundedMax(xs) ==
    IF Len(xs) = 0 THEN NaN
    ELSE IF HasKind(xs, "pinf") THEN PInf
    ELSE IF FiniteValues(xs) = {} THEN NInf
    ELSE Fin(Scale * (CHOOSE v \in FiniteValues(xs) : \A w \in FiniteValues(xs) : v >= w))

\* the sum of the squares of a series of finite values
SumSquares(xs) ==
    LET sum[i \in 0..Len(xs)] == IF i = 0 THEN 0 ELSE sum[i - 1] + xs[i].v * xs[i].v
    IN  sum[Len(xs)]

\* round(series.std(), 4): the sample standard deviation (ddof = 1), which is
\* NaN for fewer than two values (0 / 0) and for a series with an infinite
\* value.  A finite deviation is kept by its square, the sample variance
\* (n * sum(x^2) - sum(x)^2) / (n * (n - 1)), in units of 10^-4.
RoundedStd(xs) ==
    IF Len(xs) < 2 THEN NaN
    ELSE IF HasKind(xs, "pinf") \/ HasKind(xs, "ninf") THEN NaN
    ELSE Fin(RoundDiv((Len(xs) * SumSquares(xs) - SumFin(xs) * SumFin(xs)) * Scale,
                      Len(xs) * (Len(xs) - 1)))

\* df['equipment_type'].value_counts().to_dict()
ValueCounts(table, key) ==
    [t \in {table[r][key] : r \in 1..Len(table)} |->
        Cardinality({r \in 1..Len(table) : table[r][key] = t})]

\* a statistics engine that has no result for a table of one row, whose
\* deviations are 0 / 0
ComputeStatisticsFailingOnOneRow(df) ==
    IF Len(df) = 1 THEN [failed |-> "ZeroDivisionError"]
    ELSE
    [total_equipment |-> Len(df),
     avg_flowrate |-> RoundedMean(Column(df, "flowrate")),
     avg_pressure |-> RoundedMean(Column(df, "pressure")),
     avg_temperature |-> RoundedMean(Column(df, "temperature")),
     min_flowrate |-> RoundedMin(Column(df, "flowrate")),
     max_flowrate |-> RoundedMax(Column(df, "flowrate")),
     min_pressure |-> RoundedMin(Column(df, "pressure")),
     max_pressure |-> RoundedMax(Column(df, "pressure")),
     min_temperature |-> RoundedMin(Column(df, "temperature")),
     max_temperature |-> RoundedMax(Column(df, "temperature")),
     std_flowrate |-> RoundedStd(Column(df, "flowrate")),
     std_pressure |-> RoundedStd(Column(df, "pressure")),
     std_temperature |-> RoundedStd(Column(df, "temperature")),
     type_distribution |-> ValueCounts(df, "equipment_type")]

compute_statistics(df) ==
    [total_equipment |-> Len(df),
     avg_flowrate |-> RoundedMean(Column(df, "flowrate")),
     avg_pressure |-> RoundedMean(Column(df, "pressure")),
     avg_temperature |-> RoundedMean(Column(df, "temperature")),
     min_flowrate |-> RoundedMin(Column(df, "flowrate")),
     max_flowrate |-> RoundedMax(Column(df, "flowrate")),
     min_pressure |-> RoundedMin(Column(df, "pressure")),
     max_pressure |-> RoundedMax(Column(df, "pressure")),
     min_temperature |-> RoundedMin(Column(df, "temperature")),
     max_temperature |-> RoundedMax(Column(df, "temperature")),
     std_flowrate |-> RoundedStd(Column(df, "flowrate")),
     std_pressure |-> RoundedStd(Column(df, "pressure")),
     std_temperature |-> RoundedStd(Column(df, "temperature")),
     type_distribution |-> ValueCounts(df, "equipment_type")]


\* ------------------------------------------------------------------ inputs
\* header rows
AliasHeader ==
    << <<"E","q","u","i","p","m","e","n","t"," ","N","a","m","e">>,
       <<"T","y","p","e">>,
       <<"F","l","o","w"," ","R","a","t","e">>,
       <<"P","r","e","s","s","u","r","e">>,
       <<"T","e","m","p">> >>

PaddedHeader ==
    << <<"n","a","m","e">>,
       <<" ","T","Y","P","E"," ">>,
       <<"f","l","o","w">>,
       <<"P","R","E","S","S">>,
       <<"t","e","m","p","e","r","a","t","u","r","e"," ">> >>

FooHeader == << <<"f","o","o">>, <<"b","a","r">>, <<"b","a","z">> >>

\* no alias of temperature: "temperatur" is a prefix of one
NoTempHeader ==
    << <<"n","a","m","e">>, <<"t","y","p","e">>, <<"f","l","o","w">>,
       <<"p","r","e","s","s">>, <<"t","e","m","p","e","r","a","t","u","r">> >>

\* both "Name" and "Equipment Name"
DupNameHeader ==
    << <<"N","a","m","e">>,
       <<"E","q","u","i","p","m","e","n","t"," ","N","a","m","e">>,
       <<"T","y","p","e">>, <<"F","l","o","w">>,
       <<"P","r","e","s","s">>, <<"T","e","m","p">> >>

\* both "flow" and "flow_rate"
DupFlowHeader ==
    << <<"n","a","m","e">>, <<"t","y","p","e">>, <<"f","l","o","w">>,
       <<"f","l","o","w","_","r","a","t","e">>,
       <<"p","r","e","s","s">>, <<"t","e","m","p">> >>

\* "temp" twice: read_csv names the second "temp.1"
RepeatHeader ==
    << <<"n","a","m","e">>, <<"t","y","p","e">>, <<"f","l","o","w">>,
       <<"p","r","e","s","s">>, <<"t","e","m","p">>, <<"t","e","m","p">> >>

\* cells
Pump1 == StrCell(<<"P","u","m","p","-","1">>)
Valve2 == StrCell(<<"V","a","l","v","e","-","2">>)
PumpType == StrCell(<<"P","U","M","P"," ">>)
PumpMixed == StrCell(<<"P","u","m","p">>)
ValveType == StrCell(<<"v","a","l","v","e">>)
Abc == StrCell(<<"a","b","c">>)

Csv(header, rows) == [parsable |-> TRUE, header |-> header, rows |-> rows]

\* text that pd.read_csv cannot parse (it raises, e.g. on no columns)
Unparsable == [parsable |-> FALSE, header |-> <<>>, rows |-> <<>>]

\* the scenario of the specification: the second row has an empty flowrate
ScenarioCsv ==
    Csv(AliasHeader,
        << <<Pump1, PumpType, NumCell(12), NumCell(101), NumCell(25)>>,
           <<Valve2, ValveType, NaCell, NumCell(99), NumCell(24)>> >>)

\* every row has a flowrate that is no number
AllTextCsv ==
    Csv(PaddedHeader,
        << <<Pump1, PumpType, Abc, NumCell(101), NumCell(25)>> >>)

\* flowrates inf and -inf
InfCsv ==
    Csv(PaddedHeader,
        << <<Pump1, PumpType, PInfCell, NumCell(101), NumCell(25)>>,
           <<Valve2, ValveType, NInfCell, NumCell(-3), NumCell(-4)>> >>)

FooCsv == Csv(FooHeader, << <<Abc, Abc, Abc>> >>)

\* the CSVs uploaded in the store's specification, by name
Uploads ==
    [scenario |-> ScenarioCsv, all_text |-> AllTextCsv,
     inf |-> InfCsv, foo |-> FooCsv]

UploadMenu == DOMAIN Uploads

\* the header rows of the enumerated CSVs; src[j] is the cell of a five-cell
\* row (name, type, flowrate, pressure, temperature) that column j carries
HeaderMenu ==
    {[header |-> AliasHeader, src |-> <<1, 2, 3, 4, 5>>],
     [header |-> PaddedHeader, src |-> <<1, 2, 3, 4, 5>>],
     [header |-> NoTempHeader, src |-> <<1, 2, 3, 4, 5>>],
     [header |-> FooHeader, src |-> <<1, 2, 3>>],
     [header |-> DupNameHeader, src |-> <<1, 1, 2, 3, 4, 5>>],
     [header |-> DupFlowHeader, src |-> <<1, 2, 3, 3, 4, 5>>],
     [header |-> RepeatHeader, src |-> <<1, 2, 3, 4, 5, 5>>]}

\* the five-cell rows of the enumerated CSVs
RowMenu ==
    {<<Pump1, PumpType, NumCell(12), NumCell(101), NumCell(25)>>,
     <<Valve2, ValveType, NaCell, NumCell(99), NumCell(24)>>,
     <<Pump1, ValveType, Abc, NumCell(99), NumCell(24)>>,
     <<Valve2, PumpMixed, NumCell(-1), NumCell(-3), NumCell(-4)>>,
     <<NaCell, PumpType, NumCell(7), Abc, NumCell(24)>>,
     <<Pump1, ValveType, PInfCell, NumCell(5), NumCell(-4)>>,
     <<Valve2, ValveType, NInfCell, NumCell(5), NaCell>>,
     <<NaCell, NaCell, NumCell(7), NumCell(5), NumCell(0)>>}

RowSeqs == UNION {[1..n -> RowMenu] : n \in 0..MaxRows}

\* the texts given to the validator called alone
CsvInputs ==
    {Unparsable} \cup
    {Csv(h.header,
         [i \in 1..Len(rs) |-> [j \in 1..Len(h.src) |-> rs[i][h.src[j]]]]) :
        h \in HeaderMenu, rs \in RowSeqs}

\* a sample CSV of analytics/sample_csv, loaded by seed_demo_data
SampleCsv ==
    Csv(AliasHeader,
        << <<Pump1, PumpType, NumCell(12), NumCell(101), NumCell(25)>>,
           <<Valve2, ValveType, NumCell(7), NumCell(99), NumCell(-4)>> >>)


\* ------------------------------------------------------------------- store
Users == {"admin", "alice"}

\* request-handling threads
Workers == {1, 2}

\* a store: the rows of the two tables and SQLite's AUTOINCREMENT counters,
\* which are part of the database and roll back with it
EmptyStore ==
    [datasets |-> {}, records |-> {}, seq |-> [dataset |-> 0, record |-> 0]]

\* sqlite3 binds a NaN float as NULL
DbFloat(x) == IF x.k = "nan" THEN Null ELSE x

\* EquipmentDataset.objects.create(...): the INSERT of super().save()
InsertDataset(st, user, filename, uploaded_at, stats) ==
    LET id == st.seq.dataset + 1
    IN  [st EXCEPT
            !.datasets = @ \cup
                {[id |-> id, user |-> user, filename |-> filename,
                  uploaded_at |-> uploaded_at,
                  total_records |-> stats.total_equipment,
                  avg_flowrate |-> DbFloat(stats.avg_flowrate),
                  avg_pressure |-> DbFloat(stats.avg_pressure),
                  avg_temperature |-> DbFloat(stats.avg_temperature)]},
            !.seq.dataset = id]

\* EquipmentRecord.objects.bulk_create(records): one row per row of df
BulkInsert(st, dataset_id, df) ==
    [st EXCEPT
        !.records = @ \cup
            {[id |-> st.seq.record + r, dataset |-> dataset_id,
              name |-> df[r].equipment_name,
              equipment_type |-> df[r].equipment_type,
              flowrate |-> df[r].flowrate,
              pressure |-> df[r].pressure,
              temperature |-> df[r].temperature] : r \in 1..Len(df)},
        !.seq.record = @ + Len(df)]

\* EquipmentDataset.objects.filter(user=user)
UserDatasets(st, user) == {d \in st.datasets : d.user = user}

\* a slice that starts one position late: [max_datasets + 1:]
SlicedFromOnePastLimit(st, user, max_datasets) ==
    LET owned == UserDatasets(st, user)
    IN  IF Cardinality(owned) <= max_datasets + 1 THEN {{}}
        ELSE {ex \in SUBSET owned :
                /\ Cardinality(ex) = Cardinality(owned) - (max_datasets + 1)
                /\ \A e \in ex : \A d \in owned \ ex :
                      e.uploaded_at <= d.uploaded_at}

\* a slice of the datasets of every user
SlicedFromAllUsers(st, user, max_datasets) ==
    LET owned == st.datasets
    IN  IF Cardinality(owned) <= max_datasets THEN {{}}
        ELSE {ex \in SUBSET owned :
                /\ Cardinality(ex) = Cardinality(owned) - max_datasets
                /\ \A e \in ex : \A d \in owned \ ex :
                      e.uploaded_at <= d.uploaded_at}

\* user_datasets.order_by('-uploaded_at')[max_datasets:]: the datasets beyond
\* position max_datasets, newest first.  The order among equal timestamps is
\* the database's choice, so this is the set of the possible results.
SlicedFrom(st, user, max_datasets) ==
    LET owned == UserDatasets(st, user)
    IN  IF Cardinality(owned) <= max_datasets THEN {{}}
        ELSE {ex \in SUBSET owned :
                /\ Cardinality(ex) = Cardinality(owned) - max_datasets
                /\ \A e \in ex : \A d \in owned \ ex :
                      e.uploaded_at <= d.uploaded_at}

Ids(ds) == {d.id : d \in ds}

\* dataset.records.all(): the records whose foreign key is the dataset's id
RecordsOf(st, id) == {r \in st.records : r.dataset = id}

\* EquipmentRecord.objects.filter(dataset__in=datasets_to_delete).delete()
DeleteRecordsOf(st, ds) ==
    [st EXCEPT !.records = {r \in @ : r.dataset \notin Ids(ds)}]

\* a delete that leaves the records behind, as on_delete=DO_NOTHING would
DeleteWithoutCascade(st, d) == [st EXCEPT !.datasets = @ \ {d}]

\* dataset.delete(): the collector deletes the records that reference the
\* dataset (on_delete=CASCADE), then the dataset
CascadeDelete(st, d) ==
    [st EXCEPT !.records = {r \in @ : r.dataset # d.id},
               !.datasets = @ \ {d}]

\* process_upload of a sample CSV by the admin user at time t, run alone on a
\* store that holds fewer datasets than the limit
SeedOne(st, t) ==
    LET df == parse_and_validate_csv(SampleCsv).table
    IN  BulkInsert(
            InsertDataset(st, "admin", "sample.csv", t, compute_statistics(df)),
            st.seq.dataset + 1, df)


\* datasets_to_delete.delete() on the sliced queryset: QuerySet.delete()
\* refuses a query with a limit or an offset and raises TypeError ("Cannot use
\* 'limit' or 'offset' with delete()"); nothing is deleted by it
SlicedDelete(st, ex) == [raised |-> TRUE, st |-> st]

\* EquipmentDataset._enforce_retention_limit for a dataset of user: the
\* possible outcomes, one per order the database may return
enforce_retention_limit(st, user) ==
    {IF ex = {}
     THEN [raised |-> FALSE, st |-> st]
     ELSE SlicedDelete(DeleteRecordsOf(st, ex), ex) :
        ex \in SlicedFrom(st, user, MAX_DATASETS_RETAINED)}

\* the store after the first n sample CSVs were loaded, one after the other
RECURSIVE Seeded(_)
Seeded(n) == IF n = 0 THEN EmptyStore ELSE SeedOne(Seeded(n - 1), n)

\* ------------------------------------------------------------------- state
VARIABLES
    db,          \* the committed store: what every other connection reads
    txn,         \* txn[p]: the store as worker p's open transaction sees it
    lock,        \* the worker holding SQLite's write lock, 0 when free
    pc,          \* pc[p]: where worker p is in process_upload
    req,         \* req[p]: the upload worker p is processing
    resp,        \* resp[p]: the last response worker p sent
    now,         \* the last value timezone.now() returned
    requests,    \* requests made so far
    retention,   \* the last run of _enforce_retention_limit
    content, \* the text given to parse_and_validate_csv called alone
    validated,   \* what that call returned or raised
    reply,       \* the answer to the last read request
    called       \* the calls made of a pure function called alone, in order

vars == <<db, txn, lock, pc, req, resp, now, requests, retention,
          content, validated, reply, called>>

\* the variables of the validator called alone
pure == <<content, validated, called>>

\* a run of _enforce_retention_limit: the save it followed, and whether it
\* found datasets beyond the limit
Retention(on, excess) == [on |-> on, excess |-> excess]

NotRun == [run |-> FALSE, res |-> Raised("none", "none", {}, <<>>)]

NoTxn == EmptyStore

NoReq == [user |-> "", filename |-> "", csv |-> ""]

Response(status, exc) == [status |-> status, exc |-> exc]

NoResp == Response(0, "none")

\* the answer to a read request: the view, the user, the dataset named, the
\* status and what the body shows
Reply(view, user, dataset_id, status, body) ==
    [view |-> view, user |-> user, dataset_id |-> dataset_id,
     status |-> status, body |-> body]

NoBody == [shows |-> "nothing"]

NoReply == Reply("none", "", 0, 0, NoBody)

\* the store after manage.py seed_demo_data loaded the sample CSVs
SeededStore == Seeded(SampleCount)

\* the state after deployment: the empty database, or the seeded one
Init ==
    /\ db \in {EmptyStore, SeededStore}
    /\ txn = [p \in Workers |-> NoTxn]
    /\ lock = 0
    /\ pc = [p \in Workers |-> "idle"]
    /\ req = [p \in Workers |-> NoReq]
    /\ resp = [p \in Workers |-> NoResp]
    /\ now = SampleCount
    /\ requests = 0
    /\ retention = Retention("none", FALSE)
    /\ content = Unparsable
    /\ validated = NotRun
    /\ reply = NoReply
    /\ called = <<>>

\* df, warnings = cls.parse_and_validate_csv(file_content), for each CSV of the
\* menu
Validated == [csv \in UploadMenu |-> parse_and_validate_csv(Uploads[csv])]

\* stats = cls.compute_statistics(df), for each CSV of the menu
Statistics == [csv \in UploadMenu |-> compute_statistics(Validated[csv].table)]

\* the locals of process_upload
Df(p) == Validated[req[p].csv].table

Stats(p) == Statistics[req[p].csv]

\* the dataset created by worker p's open transaction
NewId(p) == txn[p].seq.dataset

\* an exception that leaves the writes made so far in the store, as without
\* transaction.atomic
AbortWithoutRollback(p, exc) ==
    /\ db' = IF pc[p] = "idle" THEN db ELSE txn[p]
    /\ txn' = [txn EXCEPT ![p] = NoTxn]
    /\ lock' = IF lock = p THEN 0 ELSE lock
    /\ pc' = [pc EXCEPT ![p] = "idle"]
    /\ req' = [req EXCEPT ![p] = NoReq]
    /\ resp' = [resp EXCEPT ![p] =
                    Response(IF exc = "CSVValidationError" THEN 400 ELSE 500, exc)]

\* a view that answers every exception as a client error
AbortAnswering400(p, exc) ==
    /\ txn' = [txn EXCEPT ![p] = NoTxn]
    /\ lock' = IF lock = p THEN 0 ELSE lock
    /\ pc' = [pc EXCEPT ![p] = "idle"]
    /\ req' = [req EXCEPT ![p] = NoReq]
    /\ resp' = [resp EXCEPT ![p] = Response(400, exc)]
    /\ UNCHANGED db

\* the transaction ends by an exception: transaction.atomic rolls back and the
\* view answers by the exception's class (views.py 166-183)
Abort(p, exc) ==
    /\ txn' = [txn EXCEPT ![p] = NoTxn]
    /\ lock' = IF lock = p THEN 0 ELSE lock
    /\ pc' = [pc EXCEPT ![p] = "idle"]
    /\ req' = [req EXCEPT ![p] = NoReq]
    /\ resp' = [resp EXCEPT ![p] =
                    Response(IF exc = "CSVValidationError" THEN 400 ELSE 500, exc)]
    /\ UNCHANGED db

\* an upload that creates the dataset, outside any transaction, before it
\* validates the file
StartUploadCreateFirst(p, user, filename, csv) ==
    /\ pc[p] = "idle"
    /\ requests < MaxRequests
    /\ requests' = requests + 1
    /\ db' = InsertDataset(db, user, filename, now, Statistics[csv])
    /\ IF Validated[csv].ok
       THEN /\ req' = [req EXCEPT ![p] =
                          [user |-> user, filename |-> filename, csv |-> csv]]
            /\ pc' = [pc EXCEPT ![p] = "create"]
            /\ UNCHANGED <<txn, lock, resp>>
       ELSE /\ resp' = [resp EXCEPT ![p] = Response(400, Validated[csv].exc)]
            /\ UNCHANGED <<txn, lock, pc, req>>
    /\ UNCHANGED <<now, retention, content, validated, reply, called>>

\* CSVUploadView.post up to process_upload's validation and statistics, which
\* touch no shared state
StartUpload(p, user, filename, csv) ==
    /\ pc[p] = "idle"
    /\ requests < MaxRequests
    /\ requests' = requests + 1
    /\ IF Validated[csv].ok
       THEN /\ req' = [req EXCEPT ![p] =
                          [user |-> user, filename |-> filename, csv |-> csv]]
            /\ pc' = [pc EXCEPT ![p] = "create"]
            /\ UNCHANGED <<db, txn, lock, resp>>
       ELSE Abort(p, Validated[csv].exc)
    /\ UNCHANGED <<now, retention, content, validated, reply, called>>

\* a create outside any transaction: the INSERT is committed at once
CreateDatasetAutocommit(p) ==
    /\ pc[p] = "create"
    /\ lock = 0
    /\ lock' = p
    /\ \E t \in {now, now + 1} :
          /\ now' = t
          /\ db' = InsertDataset(db, req[p].user, req[p].filename, t, Stats(p))
          /\ txn' = [txn EXCEPT ![p] = db']
    /\ pc' = [pc EXCEPT ![p] = "enforce"]
    /\ UNCHANGED <<req, resp, requests, retention, content, validated, reply, called>>

\* a create on a store with no write lock: it never waits
CreateDatasetNoLock(p) ==
    /\ pc[p] = "create"
    /\ \E t \in {now, now + 1} :
          /\ now' = t
          /\ txn' = [txn EXCEPT ![p] =
                        InsertDataset(db, req[p].user, req[p].filename, t, Stats(p))]
    /\ pc' = [pc EXCEPT ![p] = "enforce"]
    /\ UNCHANGED <<db, lock, req, resp, requests, retention, content, validated, reply, called>>

\* EquipmentDataset.objects.create: uploaded_at defaults to timezone.now(),
\* which is not earlier than the last time read; the INSERT takes SQLite's
\* write lock, so it waits while another transaction holds it
CreateDataset(p) ==
    /\ pc[p] = "create"
    /\ lock = 0
    /\ lock' = p
    /\ \E t \in {now, now + 1} :
          /\ now' = t
          /\ txn' = [txn EXCEPT ![p] =
                        InsertDataset(db, req[p].user, req[p].filename, t, Stats(p))]
    /\ pc' = [pc EXCEPT ![p] = "enforce"]
    /\ UNCHANGED <<db, req, resp, requests, retention, content, validated, reply, called>>

\* the wait for the write lock times out: OperationalError, database is locked
LockTimeout(p) ==
    /\ pc[p] = "create"
    /\ lock \notin {0, p}
    /\ Abort(p, "OperationalError")
    /\ UNCHANGED <<now, requests, retention, content, validated, reply, called>>

\* save() goes on to self._enforce_retention_limit()
EnforceRetention(p) ==
    /\ pc[p] = "enforce"
    /\ retention' =
          Retention("insert", {} \notin SlicedFrom(txn[p], req[p].user, MAX_DATASETS_RETAINED))
    /\ \E out \in enforce_retention_limit(txn[p], req[p].user) :
          IF out.raised
          THEN Abort(p, "TypeError")
          ELSE /\ txn' = [txn EXCEPT ![p] = out.st]
               /\ pc' = [pc EXCEPT ![p] = "bulk"]
               /\ UNCHANGED <<db, lock, req, resp>>
    /\ UNCHANGED <<now, requests, content, validated, reply, called>>

\* EquipmentRecord.objects.bulk_create(records, batch_size=1000)
BulkCreate(p) ==
    /\ pc[p] = "bulk"
    /\ txn' = [txn EXCEPT ![p] = BulkInsert(txn[p], NewId(p), Df(p))]
    /\ pc' = [pc EXCEPT ![p] = "commit"]
    /\ UNCHANGED <<db, lock, req, resp, now, requests, retention, content, validated, reply, called>>

\* process_upload returns: transaction.atomic commits, the view answers 201
Commit(p) ==
    /\ pc[p] = "commit"
    /\ db' = txn[p]
    /\ txn' = [txn EXCEPT ![p] = NoTxn]
    /\ lock' = 0
    /\ pc' = [pc EXCEPT ![p] = "idle"]
    /\ req' = [req EXCEPT ![p] = NoReq]
    /\ resp' = [resp EXCEPT ![p] = Response(201, "none")]
    /\ UNCHANGED <<now, requests, retention, content, validated, reply, called>>

\* DatasetDetailView.delete by user for dataset_id
DeleteDataset(p, user, dataset_id) ==
    /\ pc[p] = "idle"
    /\ lock = 0
    /\ requests < MaxRequests
    /\ requests' = requests + 1
    /\ IF \E d \in db.datasets : d.id = dataset_id /\ d.user = user
       THEN LET d == CHOOSE d \in db.datasets : d.id = dataset_id /\ d.user = user
            IN  /\ db' = CascadeDelete(db, d)
                /\ resp' = [resp EXCEPT ![p] = Response(204, "none")]
       ELSE /\ resp' = [resp EXCEPT ![p] = Response(404, "none")]
            /\ UNCHANGED db
    /\ UNCHANGED <<txn, lock, pc, req, now, retention, content, validated, reply, called>>

\* EquipmentDatasetAdmin's change form saves the existing dataset dataset_id
\* with its user field set to user (possibly unchanged): an UPDATE by save(),
\* which then runs _enforce_retention_limit, all inside the admin's
\* transaction, which an exception rolls back
AdminSave(dataset_id, user) ==
    /\ lock = 0
    /\ requests < MaxRequests
    /\ requests' = requests + 1
    /\ \E d \in db.datasets :
          /\ d.id = dataset_id
          /\ LET updated == [db EXCEPT !.datasets =
                                (@ \ {d}) \cup {[d EXCEPT !.user = user]}]
             IN  /\ retention' =
                       Retention("update",
                                 {} \notin SlicedFrom(updated, user, MAX_DATASETS_RETAINED))
                 /\ \E out \in enforce_retention_limit(updated, user) :
                       db' = IF out.raised THEN db ELSE out.st
    /\ UNCHANGED <<txn, lock, pc, req, resp, now, content, validated, reply, called>>

\* CSVUploadSerializer.validate_file: 10 * 1024 * 1024 bytes
MaxUploadSize == 10485760

\* the characters of the names of the uploaded files
NameText ==
    [n \in {"data.csv", "DATA.CSV", "data.txt"} |->
        CASE n = "data.csv" -> <<"d","a","t","a",".","c","s","v">>
          [] n = "DATA.CSV" -> <<"D","A","T","A",".","C","S","V">>
          [] n = "data.txt" -> <<"d","a","t","a",".","t","x","t">>]

\* the uploaded files: the name, the size in bytes, and whether the bytes
\* decode as UTF-8
UploadedFile(name, size, utf8) == [name |-> name, size |-> size, utf8 |-> utf8]

Files ==
    {UploadedFile("DATA.CSV", 1, TRUE),
     UploadedFile("DATA.CSV", MaxUploadSize, TRUE),
     UploadedFile("DATA.CSV", MaxUploadSize + 1, TRUE),
     UploadedFile("data.txt", 1, TRUE),
     UploadedFile("data.csv", 1, FALSE)}

\* str.endswith(suffix)
EndsWith(s, suffix) ==
    /\ Len(s) >= Len(suffix)
    /\ SubSeq(s, Len(s) - Len(suffix) + 1, Len(s)) = suffix

\* a size check that also refuses a file of exactly the limit
ValidateFileBelowLimit(value) ==
    IF ~EndsWith(Lower(NameText[value.name]), <<".","c","s","v">>)
    THEN "Only CSV files are allowed."
    ELSE IF value.size >= MaxUploadSize
    THEN "CSV file must be under 10MB."
    ELSE "valid"

\* CSVUploadSerializer.validate_file(value): the error it raises, or "valid"
validate_file(value) ==
    IF ~EndsWith(Lower(NameText[value.name]), <<".","c","s","v">>)
    THEN "Only CSV files are allowed."
    ELSE IF value.size > MaxUploadSize
    THEN "CSV file must be under 10MB."
    ELSE "valid"

\* serializer.is_valid(), for each file of the menu
FileCheck == [f \in Files |-> validate_file(f)]

\* the names of the files that reach process_upload
Filenames == {f.name : f \in {g \in Files : FileCheck[g] = "valid" /\ g.utf8}}

\* post answers 400 before it calls process_upload
RejectUpload(p, exc) ==
    /\ resp' = [resp EXCEPT ![p] = Response(400, exc)]
    /\ requests' = requests + 1
    /\ UNCHANGED <<db, txn, lock, pc, req, now, retention, content, validated,
                   reply, called>>

\* CSVUploadView.post: the serializer's checks of the file, the decoding of
\* its bytes, then process_upload
Post(p, user, file, csv) ==
    /\ pc[p] = "idle"
    /\ requests < MaxRequests
    /\ IF FileCheck[file] # "valid"
       THEN RejectUpload(p, "ValidationError")
       ELSE IF ~file.utf8
       THEN RejectUpload(p, "UnicodeDecodeError")
       ELSE StartUpload(p, user, file.name, csv)

\* the dataset ids named in delete and admin requests: a seeded dataset (or the
\* first upload into the empty store) and the first upload into the seeded one
RequestIds == {1, SampleCount + 1}

Next ==
    \/ \E p \in Workers, user \in Users, file \in Files, csv \in UploadMenu :
          Post(p, user, file, csv)
    \/ \E p \in Workers : CreateDataset(p)
    \/ \E p \in Workers : LockTimeout(p)
    \/ \E p \in Workers : EnforceRetention(p)
    \/ \E p \in Workers : BulkCreate(p)
    \/ \E p \in Workers : Commit(p)
    \/ \E p \in Workers, user \in Users, dataset_id \in RequestIds :
          DeleteDataset(p, user, dataset_id)
    \/ \E dataset_id \in RequestIds, user \in Users : AdminSave(dataset_id, user)

Spec == Init /\ [][Next]_vars

\* ---------------------------------------------- the validator called alone
InitValidate ==
    /\ db = EmptyStore
    /\ txn = [p \in Workers |-> NoTxn]
    /\ lock = 0
    /\ pc = [p \in Workers |-> "idle"]
    /\ req = [p \in Workers |-> NoReq]
    /\ resp = [p \in Workers |-> NoResp]
    /\ now = SampleCount
    /\ requests = 0
    /\ retention = Retention("none", FALSE)
    /\ content \in CsvInputs
    /\ validated = NotRun
    /\ reply = NoReply
    /\ called = <<>>

\* AnalyticsService.parse_and_validate_csv(file_content)
Validate ==
    /\ ~validated.run
    /\ validated' = [run |-> TRUE, res |-> parse_and_validate_csv(content)]
    /\ UNCHANGED <<db, txn, lock, pc, req, resp, now, requests, retention, content,
                   reply, called>>

NextValidate == Validate

SpecValidate == InitValidate /\ [][NextValidate]_vars

\* ------------------------------------------- the pure functions called alone
\* str.upper() on one character
UpperChar(c) ==
    IF \E i \in 1..Len(LowerCase) : LowerCase[i] = c
    THEN UpperCase[CHOOSE i \in 1..Len(LowerCase) : LowerCase[i] = c]
    ELSE c

\* every alias of the table
Aliases == UNION {REQUIRED_COLUMNS[i].variations : i \in 1..Len(REQUIRED_COLUMNS)}

\* headers that are no alias: prefixes, extensions, misspellings, inner
\* whitespace, read_csv's name for a repeated header, the empty header
NearMisses ==
    {<<"t","e","m","p","e","r","a","t","u","r">>,
     <<"n","a","m">>,
     <<"f","l","o","w","r","a","t","e","s">>,
     <<"p","r","e","s","u","r","e">>,
     <<"f","l","o","w","-","r","a","t","e">>,
     <<"f","l","o","w"," "," ","r","a","t","e">>,
     <<"t","y"," ","p","e">>,
     <<"t","e","m","p",".","1">>,
     <<"e","q","u","i","p","m","e","n","t">>,
     <<" ">>,
     <<>>}

\* the headers given to the normalizer: the aliases, the aliases in upper case
\* between whitespace, and the near misses
HeaderInputs ==
    Aliases
    \cup {<<" ">> \o [i \in 1..Len(a) |-> UpperChar(a[i])] \o <<"\t">> : a \in Aliases}
    \cup NearMisses
    \cup {<<"\n">> \o m : m \in NearMisses}

\* the tables given to the statistics engine: the non-empty tables the
\* validator returns
TableInputs ==
    {parse_and_validate_csv(csv).table :
        csv \in {c \in CsvInputs : parse_and_validate_csv(c).ok}} \ {<<>>}

Call(fn, arg, out) == [fn |-> fn, arg |-> arg, out |-> out]

\* the other variables of a call of a pure function, which reads and writes
\* no shared state
NoEffect ==
    UNCHANGED <<db, txn, lock, pc, req, resp, now, requests, retention,
                content, validated, reply>>

\* AnalyticsService.compute_statistics(df); a later call is of the same table
CallStatistics(df) ==
    /\ Len(called) < MaxCalls
    /\ called # <<>> => called[1].fn = "compute_statistics" /\ called[1].arg = df
    /\ called' = Append(called, Call("compute_statistics", df, compute_statistics(df)))
    /\ NoEffect

\* AnalyticsService.normalize_column_name(col); a later call is of the same
\* header
CallNormalize(col) ==
    /\ Len(called) < MaxCalls
    /\ called # <<>> => called[1].fn = "normalize_column_name" /\ called[1].arg = col
    /\ called' = Append(called, Call("normalize_column_name", col,
                                     normalize_column_name(col)))
    /\ NoEffect

NextPure ==
    \/ \E df \in TableInputs : CallStatistics(df)
    \/ \E col \in HeaderInputs : CallNormalize(col)

SpecPure == Init /\ [][NextPure]_vars

\* ------------------------------------------------------------ the read path
\* a float column read back from the database: NULL is None, which a DataFrame
\* holds as NaN
FromDb(x) == IF x.k = "null" THEN NaN ELSE x

\* pd.DataFrame(list(records)) for records = dataset.records.all().values(
\* 'flowrate', 'pressure', 'temperature', 'equipment_type'): one row per
\* record.  The rows come ordered by name; the order among equal names is the
\* database's, and here it is by id.
RecordsFrame(rs) ==
    LET n == Cardinality(rs)
        order == [i \in 1..n |->
                    CHOOSE r \in rs : Cardinality({q \in rs : q.id <= r.id}) = i]
    IN  [i \in 1..n |->
            [equipment_type |-> order[i].equipment_type,
             flowrate |-> FromDb(order[i].flowrate),
             pressure |-> FromDb(order[i].pressure),
             temperature |-> FromDb(order[i].temperature)]]

\* the statistics get_dataset_summary returns for a dataset without records
ZeroStatistics ==
    [total_equipment |-> 0,
     avg_flowrate |-> Fin(0), avg_pressure |-> Fin(0), avg_temperature |-> Fin(0),
     min_flowrate |-> Fin(0), max_flowrate |-> Fin(0),
     min_pressure |-> Fin(0), max_pressure |-> Fin(0),
     min_temperature |-> Fin(0), max_temperature |-> Fin(0),
     std_flowrate |-> Fin(0), std_pressure |-> Fin(0), std_temperature |-> Fin(0),
     type_distribution |-> <<>>]

\* a summary computed from the records of every dataset
SummaryOfAllRecords(st, dataset) ==
    [dataset_id |-> dataset.id,
     filename |-> dataset.filename,
     uploaded_at |-> dataset.uploaded_at,
     stats |-> IF st.records = {}
               THEN ZeroStatistics
               ELSE compute_statistics(RecordsFrame(st.records))]

\* AnalyticsService.get_dataset_summary(dataset)
get_dataset_summary(st, dataset) ==
    [dataset_id |-> dataset.id,
     filename |-> dataset.filename,
     uploaded_at |-> dataset.uploaded_at,
     stats |-> IF RecordsOf(st, dataset.id) = {}
               THEN ZeroStatistics
               ELSE compute_statistics(RecordsFrame(RecordsOf(st, dataset.id)))]

\* a lookup by id alone, whoever the owner is
GetDatasetOfAnyUser(st, dataset_id, user) ==
    {d \in st.datasets : d.id = dataset_id}

\* EquipmentDataset.objects.get(id=dataset_id, user=request.user): the
\* datasets it finds, none (DoesNotExist) or one
GetDataset(st, dataset_id, user) ==
    {d \in st.datasets : d.id = dataset_id /\ d.user = user}

NotFound(view, user, dataset_id) == Reply(view, user, dataset_id, 404, NoBody)

\* the other variables of a read request, which writes nothing
ReadOnly ==
    UNCHANGED <<db, txn, lock, pc, req, resp, now, requests, retention,
                content, validated, called>>

\* DatasetSummaryView.get
Summary(user, dataset_id) ==
    /\ reply' =
          IF GetDataset(db, dataset_id, user) = {}
          THEN NotFound("summary", user, dataset_id)
          ELSE LET dataset == CHOOSE d \in GetDataset(db, dataset_id, user) : TRUE
               IN  Reply("summary", user, dataset_id, 200,
                         [shows |-> "summary",
                          summary |-> get_dataset_summary(db, dataset)])
    /\ ReadOnly

\* DatasetDetailView.get
Detail(user, dataset_id) ==
    /\ reply' =
          IF GetDataset(db, dataset_id, user) = {}
          THEN NotFound("detail", user, dataset_id)
          ELSE LET dataset == CHOOSE d \in GetDataset(db, dataset_id, user) : TRUE
               IN  Reply("detail", user, dataset_id, 200,
                         [shows |-> "dataset",
                          dataset |-> dataset,
                          records |-> RecordsOf(db, dataset.id)])
    /\ ReadOnly

\* PDFReportView.get: the report of the user's dataset; for a dataset it does
\* not find, the demo PDF, or Http404 when that file is not on the disk
Report(user, dataset_id) ==
    /\ IF GetDataset(db, dataset_id, user) = {}
       THEN \E demo_exists \in BOOLEAN :
               reply' = IF demo_exists
                        THEN Reply("report", user, dataset_id, 200, [shows |-> "demo"])
                        ELSE NotFound("report", user, dataset_id)
       ELSE LET dataset == CHOOSE d \in GetDataset(db, dataset_id, user) : TRUE
            IN  reply' = Reply("report", user, dataset_id, 200,
                               [shows |-> "report",
                                dataset |-> dataset,
                                summary |-> get_dataset_summary(db, dataset),
                                records |-> RecordsOf(db, dataset.id)])
    /\ ReadOnly

\* process_upload of csv by user at time t run alone on a store, when nothing
\* raises
Ingested(st, user, csv, t) ==
    LET df == parse_and_validate_csv(csv).table
    IN  BulkInsert(
            InsertDataset(st, user, "data.csv", t, compute_statistics(df)),
            st.seq.dataset + 1, df)

\* the CSVs whose upload built the store the read requests are made on: the
\* valid ones under the header of the sample files
ReadInputs ==
    {csv \in CsvInputs : csv.header = AliasHeader /\ parse_and_validate_csv(csv).ok}

\* the stores the read requests are made on: an upload that succeeded, of a
\* CSV of the validator's inputs, into the empty or the seeded store; one
\* request that writes is left to make
InitRead ==
    /\ content \in ReadInputs
    /\ \E user \in Users : \E st \in {EmptyStore, SeededStore} :
          /\ Cardinality(UserDatasets(st, user)) < MAX_DATASETS_RETAINED
          /\ db = Ingested(st, user, content, SampleCount + 1)
    /\ txn = [p \in Workers |-> NoTxn]
    /\ lock = 0
    /\ pc = [p \in Workers |-> "idle"]
    /\ req = [p \in Workers |-> NoReq]
    /\ resp = [p \in Workers |-> NoResp]
    /\ now = SampleCount + 1
    /\ requests = MaxRequests - 1
    /\ retention = Retention("insert", FALSE)
    /\ validated = NotRun
    /\ reply = NoReply
    /\ called = <<>>

NextRead ==
    \/ \E user \in Users, dataset_id \in RequestIds : Summary(user, dataset_id)
    \/ \E user \in Users, dataset_id \in RequestIds : Detail(user, dataset_id)
    \/ \E user \in Users, dataset_id \in RequestIds : Report(user, dataset_id)
    \/ \E p \in Workers, user \in Users, dataset_id \in RequestIds :
          DeleteDataset(p, user, dataset_id)

SpecRead == InitRead /\ [][NextRead]_vars

\* ------------------------------------------- a store beyond the limit
\* the datasets of admin beyond MAX_DATASETS_RETAINED in the store below
ExcessCount == 2

\* a store in which admin holds more datasets than MAX_DATASETS_RETAINED: the
\* sample CSVs loaded while the setting was that much larger, before it was
\* lowered to its present value
ExcessStore == Seeded(MAX_DATASETS_RETAINED + ExcessCount)

\* the requests of Spec made on that store; one request fewer is left to make
InitExcess ==
    /\ db = ExcessStore
    /\ txn = [p \in Workers |-> NoTxn]
    /\ lock = 0
    /\ pc = [p \in Workers |-> "idle"]
    /\ req = [p \in Workers |-> NoReq]
    /\ resp = [p \in Workers |-> NoResp]
    /\ now = MAX_DATASETS_RETAINED + ExcessCount
    /\ requests = 1
    /\ retention = Retention("none", FALSE)
    /\ content = Unparsable
    /\ validated = NotRun
    /\ reply = NoReply
    /\ called = <<>>

SpecExcess == InitExcess /\ [][Next]_vars

\* ------------------------------------------------------------------ claims
Min(a, b) == IF a <= b THEN a ELSE b

DatasetById(st, id) == CHOOSE d \in st.datasets : d.id = id

\* worker p's transaction commits in this step
Commits(p) == pc[p] = "commit" /\ pc'[p] = "idle"

\* C1: after an ingestion that completes successfully, its owner holds at most
\* MAX_DATASETS_RETAINED datasets, and they are the most recent, by upload
\* timestamp, of the datasets the owner held before and the new one (all of
\* them when they are no more than the limit); no owner ever holds more
C1_RetentionAfterIngestion ==
    [][\A p \in Workers :
          Commits(p) =>
             LET owner == req[p].user
                 candidates == UserDatasets(db, owner) \cup
                                  {DatasetById(txn[p], NewId(p))}
                 retained == UserDatasets(db', owner)
             IN  /\ retained \subseteq candidates
                 /\ Cardinality(retained) =
                       Min(MAX_DATASETS_RETAINED, Cardinality(candidates))
                 /\ \A kept \in retained : \A gone \in candidates \ retained :
                       kept.uploaded_at >= gone.uploaded_at
                 /\ \A user \in Users :
                       Cardinality(UserDatasets(db', user)) <= MAX_DATASETS_RETAINED]_vars

\* an ingestion has committed that brought its owner to the limit
C1_Witness ==
    \E p \in Workers : \E d \in db.datasets :
        /\ resp[p].status = 201
        /\ d.id > SampleCount
        /\ Cardinality(UserDatasets(db, d.user)) = MAX_DATASETS_RETAINED

\* the rows of a CSV whose flowrate, pressure and temperature are numbers
UsableRows(csv) ==
    {r \in 1..Len(csv.rows) :
        \A key \in NumericKeys :
            \A i \in ColumnsOf(ReadCsv(csv).columns, key) :
                csv.rows[r][i].k \notin {"nan", "str"}}

\* the five required fields are in the header and a row has usable numbers
Ingestible(csv) ==
    /\ csv.parsable
    /\ \A key \in RequiredKeys : ColumnsOf(ReadCsv(csv).columns, key) # {}
    /\ UsableRows(csv) # {}

\* C2: in every store state, the ingestion of a CSV that has the five required
\* fields and a row with usable numeric values succeeds once it holds the
\* store, and the record count of the dataset it persists is the number of
\* rows left after the rows with missing or non-numeric values are dropped
C2_IngestionSucceeds ==
    [][\A p \in Workers :
          (/\ pc[p] \in {"enforce", "bulk", "commit"}
           /\ pc'[p] = "idle"
           /\ Ingestible(Uploads[req[p].csv]))
          => /\ resp'[p].status = 201
             /\ \E d \in db'.datasets :
                   /\ d.id = NewId(p)
                   /\ d.total_records = Cardinality(UsableRows(Uploads[req[p].csv]))
                   /\ Cardinality(RecordsOf(db', d.id)) = d.total_records]_vars

\* C3: an ingestion that fails with CSVValidationError leaves the store as it
\* was: no dataset and no record is created or deleted, in the committed store
\* or in any open transaction
C3_ValidationFailurePersistsNothing ==
    [][\A p \in Workers, user \in Users, filename \in Filenames, csv \in UploadMenu :
          (StartUpload(p, user, filename, csv)
             /\ Validated[csv].exc = "CSVValidationError")
          => db' = db /\ txn' = txn /\ resp'[p].status = 400]_vars

\* an ingestion failed validation while the store held datasets
C3_Witness ==
    \E p \in Workers :
        /\ resp[p] = Response(400, "CSVValidationError")
        /\ db.datasets # {}
        /\ db.records # {}

\* C4: in no committed state, which is what a concurrent reader sees, does a
\* dataset have fewer stored records than its record count
C4_AllOrNothing ==
    \A d \in db.datasets : Cardinality(RecordsOf(db, d.id)) >= d.total_records

\* a transaction holds a dataset whose records are still to be inserted, and
\* no reader sees that dataset
C4_Witness ==
    \E p \in Workers :
        /\ pc[p] = "bulk"
        /\ DatasetById(txn[p], NewId(p)).total_records > 0
        /\ RecordsOf(txn[p], NewId(p)) = {}
        /\ NewId(p) \notin Ids(db.datasets)

\* the canonical fields that no header of the CSV is an alias of
Lacking(csv) ==
    {REQUIRED_COLUMNS[i].key : i \in
        {i \in 1..Len(REQUIRED_COLUMNS) :
            \A j \in 1..Len(ReadCsv(csv).columns) :
                Lower(Strip(ReadCsv(csv).columns[j])) \notin REQUIRED_COLUMNS[i].variations}}

NamesEveryMissingField ==
    /\ ~validated.res.ok
    /\ validated.res.exc = "CSVValidationError"
    /\ validated.res.error = "missing_columns"
    /\ validated.res.missing = Lacking(content)
    /\ (\A j \in 1..Len(content.header) :
            normalize_column_name(content.header[j]) = NoneValue)
       => validated.res.missing = RequiredKeys

\* C5 as stated: for every CSV whose headers lack a canonical field, validation
\* fails with a CSVValidationError that names every missing field
C5_MissingFieldsNamed ==
    (validated.run /\ content.parsable /\ content.header # <<>>
        /\ Lacking(content) # {})
    => NamesEveryMissingField

\* C5 amended: for every CSV with at least one data row whose headers lack a
\* canonical field, validation fails with a CSVValidationError that names every
\* missing field; all five when no header is an alias
C5_MissingFieldsNamedGivenRows ==
    (validated.run /\ content.parsable /\ content.header # <<>>
        /\ content.rows # <<>> /\ Lacking(content) # {})
    => NamesEveryMissingField

\* validation named temperature alone as missing
C5_Witness ==
    /\ validated.run
    /\ content.rows # <<>>
    /\ validated.res.error = "missing_columns"
    /\ validated.res.missing = {"temperature"}

\* C6: validation never returns an empty table: when the rows left after the
\* numeric coercion are none, it fails with the "no rows remain" error
C6_NoEmptyTable ==
    validated.run =>
        /\ validated.res.ok => Len(validated.res.table) >= 1
        /\ (content.parsable /\ content.rows # <<>> /\ Lacking(content) = {}
              /\ UsableRows(content) = {})
           => ~validated.res.ok

\* C7: in every committed state, each dataset's record count is the number of
\* records stored for it, and an average of it is null only if that count is 0
C7_CountsAndAverages ==
    \A d \in db.datasets :
        /\ d.total_records = Cardinality(RecordsOf(db, d.id))
        /\ (d.avg_flowrate = Null \/ d.avg_pressure = Null \/ d.avg_temperature = Null)
           => d.total_records = 0

\* every record references exactly one dataset of the store
RefIntegrity ==
    \A r \in db.records :
        Cardinality({d \in db.datasets : d.id = r.dataset}) = 1

\* a step that deletes datasets deletes their records and no others
CascadeOnDelete ==
    /\ \A d \in db.datasets :
          d.id \notin Ids(db'.datasets) => RecordsOf(db', d.id) = {}
    /\ \A d \in db.datasets :
          d.id \in Ids(db'.datasets) => RecordsOf(db, d.id) \subseteq RecordsOf(db', d.id)

\* C8: in every committed state every record references exactly one existing
\* dataset, and whenever a dataset is deleted all of its records are deleted
\* with it and no record of another dataset is
C8_CascadeDelete == []RefIntegrity /\ [][CascadeOnDelete]_vars

\* a dataset that had records was deleted, and the others kept theirs
C8_Witness ==
    \E p \in Workers :
        /\ resp[p].status = 204
        /\ 1 \notin Ids(db.datasets)
        /\ RecordsOf(db, 1) = {}
        /\ \E d \in db.datasets : RecordsOf(db, d.id) # {}

\* C9: retention enforcement runs only after the insert of a new dataset,
\* never after the save of an existing one
C9_EnforcementOnInsertOnly == retention.on \in {"none", "insert"}

\* C10: for an owner with more than MAX_DATASETS_RETAINED datasets the eviction
\* step completes without raising and leaves the owner the limit's worth of
\* datasets, the evicted ones' records deleted with them
C10_EvictionCompletes ==
    [][\A p \in Workers :
          (/\ pc[p] = "enforce"
           /\ pc'[p] # "enforce"
           /\ Cardinality(UserDatasets(txn[p], req[p].user)) > MAX_DATASETS_RETAINED)
          => /\ pc'[p] = "bulk"
             /\ Cardinality(UserDatasets(txn'[p], req[p].user)) = MAX_DATASETS_RETAINED
             /\ \A r \in txn'[p].records : r.dataset \in Ids(txn'[p].datasets)]_vars

\* C11: every table a successful validation returns has at least one row and
\* a finite number in every flowrate, pressure and temperature cell
C11_FiniteNonEmptyTable ==
    (validated.run /\ validated.res.ok) =>
        /\ Len(validated.res.table) >= 1
        /\ \A r \in 1..Len(validated.res.table) :
              /\ DOMAIN validated.res.table[r] =
                    {"equipment_name", "equipment_type"} \cup NumericKeys
              /\ \A key \in NumericKeys : validated.res.table[r][key].k = "fin"

\* the workers inside the write phase of process_upload: past the INSERT of
\* the dataset, before the commit
Writing == {p \in Workers : pc[p] \in {"enforce", "bulk", "commit"}}

\* C12 as stated: concurrent ingestions by one owner are not mutually excluded:
\* while one is between its insert and its commit, another of the same owner
\* can insert its dataset and go on to its retention check
C12_NotMutuallyExcluded ==
    \A p \in Workers : \A q \in Workers \ {p} :
        (/\ pc[p] = "create"
         /\ q \in Writing
         /\ req[p].user = req[q].user)
        => ENABLED CreateDataset(p)

\* C12 amended: on the SQLite store the write lock serialises ingestions: at
\* most one is between its insert and its commit, it holds the lock, and no
\* owner holds more than MAX_DATASETS_RETAINED datasets in a committed state
C12_SerialisedByWriteLock ==
    /\ Cardinality(Writing) <= 1
    /\ \A p \in Writing : lock = p
    /\ \A user \in Users :
          Cardinality(UserDatasets(db, user)) <= MAX_DATASETS_RETAINED

\* two ingestions by one owner run at once: one is about to commit while the
\* other waits to insert its dataset
C12_Witness ==
    \E p \in Workers : \E q \in Workers \ {p} :
        /\ pc[p] = "commit"
        /\ pc[q] = "create"
        /\ req[p].user = req[q].user

\* the id of the dataset that the upload of content created
Uploaded == db.seq.dataset

\* the statistics that upload returned
IngestionStatistics == compute_statistics(parse_and_validate_csv(content).table)

\* C13: the statistics the summary path recomputes from a dataset's stored
\* records equal the statistics returned by the ingestion that created it
C13_SummaryRoundTrip ==
    (reply.view = "summary" /\ reply.status = 200 /\ reply.dataset_id = Uploaded)
    => reply.body.summary.stats = IngestionStatistics

StatisticsKeys ==
    {"total_equipment", "avg_flowrate", "avg_pressure", "avg_temperature",
     "min_flowrate", "max_flowrate", "min_pressure", "max_pressure",
     "min_temperature", "max_temperature", "std_flowrate", "std_pressure",
     "std_temperature", "type_distribution"}

StatisticsCalls == {i \in DOMAIN called : called[i].fn = "compute_statistics"}

C15_SingleRowIngestion ==
    [][\A p \in Workers :
          (/\ pc[p] \in {"enforce", "bulk", "commit"}
           /\ pc'[p] = "idle"
           /\ Len(Df(p)) = 1)
          => /\ resp'[p] = Response(201, "none")
             /\ NewId(p) \in Ids(db'.datasets)
             /\ DatasetById(db', NewId(p)).total_records = 1
             /\ Cardinality(RecordsOf(db', NewId(p))) = 1
             /\ Stats(p).std_flowrate = NaN
             /\ Stats(p).std_pressure = NaN
             /\ Stats(p).std_temperature = NaN]_vars

\* every numeric statistic is 0 and the type distribution is empty
AllZero(stats) ==
    /\ stats.total_equipment = 0
    /\ \A key \in StatisticsKeys \ {"total_equipment", "type_distribution"} :
          stats[key] = Fin(0)
    /\ DOMAIN stats.type_distribution = {}

\* C16: the summary of a dataset without stored records has count 0, every
\* numeric statistic 0 and an empty type distribution; the summary of a dataset
\* with records is the statistics of exactly its own records
C16_SummaryOfStoredRecords ==
    [][\A user \in Users, dataset_id \in RequestIds :
          (Summary(user, dataset_id) /\ GetDataset(db, dataset_id, user) # {})
          => LET own == RecordsOf(db, dataset_id)
                 stats == reply'.body.summary.stats
             IN  /\ reply'.status = 200
                 /\ own = {} => AllZero(stats)
                 /\ own # {} =>
                       /\ stats = compute_statistics(RecordsFrame(own))
                       /\ stats.total_equipment = Cardinality(own)]_vars

\* a dataset without records was summarised in a store that holds records of
\* other datasets
C16_Witness ==
    /\ reply.view = "summary"
    /\ reply.status = 200
    /\ reply.body.summary.stats.total_equipment = 0
    /\ reply.dataset_id \in Ids(db.datasets)
    /\ db.records # {}

NormalizeCalls == {i \in DOMAIN called : called[i].fn = "normalize_column_name"}

\* the alias set of a canonical field
AliasSet(key) ==
    UNION {REQUIRED_COLUMNS[i].variations :
              i \in {j \in 1..Len(REQUIRED_COLUMNS) : REQUIRED_COLUMNS[j].key = key}}

\* C17: the normalizer returns field f for a header exactly when the header,
\* trimmed and lower-cased, is in f's alias set, and "unrecognized" otherwise;
\* the alias sets are pairwise disjoint; a prefix, an extension or a
\* misspelling of an alias is not accepted
C17_ExactAliasMatch ==
    /\ \A f \in RequiredKeys : \A g \in RequiredKeys \ {f} :
          AliasSet(f) \cap AliasSet(g) = {}
    /\ \A i \in NormalizeCalls :
          LET trimmed == Lower(Strip(called[i].arg))
          IN  /\ called[i].out \in RequiredKeys \cup {NoneValue}
              /\ \A f \in RequiredKeys :
                    called[i].out = f <=> trimmed \in AliasSet(f)
              /\ called[i].out = NoneValue <=> trimmed \notin Aliases
              /\ called[i].arg \in NearMisses => called[i].out = NoneValue

\* the normalizer was given " TYPE" followed by a tab and returned
\* equipment_type
C17_Witness ==
    \E i \in NormalizeCalls :
        /\ called[i].arg = <<" ", "T", "Y", "P", "E", "\t">>
        /\ called[i].out = "equipment_type"

\* the normalizer was given the prefix "temperatur" and returned unrecognized
C17_NearMissRejected ==
    \E i \in NormalizeCalls :
        /\ called[i].arg = <<"t","e","m","p","e","r","a","t","u","r">>
        /\ called[i].out = NoneValue

\* every dataset that is still stored after the step is stored with the same
\* attributes and the same records
Untouched ==
    \A d \in db.datasets :
        (\E e \in db'.datasets : e.id = d.id) =>
            /\ d \in db'.datasets
            /\ RecordsOf(db', d.id) = RecordsOf(db, d.id)

\* C18: once created, a dataset and its records are never changed by any
\* operation; a dataset can only be deleted
C18_NeverMutated == [][Untouched]_vars

\* dataset_id names a stored dataset whose owner is not user
OwnedByAnother(user, dataset_id) ==
    \E d \in db.datasets : d.id = dataset_id /\ d.user # user

\* C19: a summary, detail, report or delete request by a user that names a
\* dataset owned by another user leaves the store unchanged and shows nothing
\* of that dataset: summary, detail and delete answer 404, and the report
\* answers with the demo PDF or 404
C19_CrossOwnerIsolation ==
    [][/\ (reply' # reply /\ OwnedByAnother(reply'.user, reply'.dataset_id)) =>
             /\ db' = db
             /\ reply'.view \in {"summary", "detail"} => reply'.status = 404
             /\ reply'.status = 404 => reply'.body = NoBody
             /\ reply'.body.shows \in {"nothing", "demo"}
       /\ \A p \in Workers, user \in Users, dataset_id \in RequestIds :
             (OwnedByAnother(user, dataset_id) /\ DeleteDataset(p, user, dataset_id)) =>
                 /\ db' = db
                 /\ resp'[p].status = 404]_vars

\* a summary request was answered 404 for a dataset that is stored under
\* another owner
C19_Witness ==
    /\ reply.view = "summary"
    /\ reply.status = 404
    /\ OwnedByAnother(reply.user, reply.dataset_id)

\* a delete request was answered 404 while a dataset of another owner is stored
C19_DeleteRefused ==
    \E p \in Workers :
        /\ resp[p].status = 404
        /\ \E user \in Users, dataset_id \in RequestIds :
              OwnedByAnother(user, dataset_id)

\* worker p's upload is answered in this step, and raised is the exception's
\* class ("none" when process_upload returned)
UploadAnswered(p, raised) ==
    \/ /\ raised \notin {"none", "OperationalError", "TypeError"}
       /\ \E user \in Users, filename \in Filenames, csv \in UploadMenu :
             /\ StartUpload(p, user, filename, csv)
             /\ ~Validated[csv].ok
             /\ Validated[csv].exc = raised
    \/ /\ raised = "OperationalError"
       /\ pc[p] = "create" /\ pc'[p] = "idle"
    \/ /\ raised = "TypeError"
       /\ pc[p] = "enforce" /\ pc'[p] = "idle"
    \/ /\ raised = "none"
       /\ pc[p] = "commit" /\ pc'[p] = "idle"

Exceptions == {"none", "CSVValidationError", "AttributeError", "OperationalError", "TypeError"}

CellText(c) == IF c.k = "str" THEN c.s ELSE <<>>

\* the trimmed, lower-cased text of the type cell of data row r of the file
TypeKey(csv, r) ==
    Lower(Strip(CellText(
        csv.rows[r][TheColumn(ReadCsv(csv).columns, "equipment_type")])))

RECURSIVE SumCounts(_)
\* the sum of the counts of a frequency table
SumCounts(dist) ==
    IF DOMAIN dist = {} THEN 0
    ELSE LET t == CHOOSE t \in DOMAIN dist : TRUE
         IN  dist[t] + SumCounts([u \in DOMAIN dist \ {t} |-> dist[u]])

\* the type distribution of the validated table is the frequency table of the
\* trimmed, lower-cased type texts of the rows of the file in rows
KeyedByTrimmedLowerType(rows) ==
    LET dist == compute_statistics(validated.res.table).type_distribution
    IN  /\ DOMAIN dist = {TypeKey(content, r) : r \in rows}
        /\ \A r \in rows :
              dist[TypeKey(content, r)] =
                 Cardinality({q \in rows : TypeKey(content, q) = TypeKey(content, r)})
        /\ SumCounts(dist) = Len(validated.res.table)

\* C21: the type distribution is keyed by the trimmed, lower-cased equipment
\* type of the rows kept: types that differ in case or surrounding whitespace
\* share a bucket, any type is accepted, and the counts sum to the record count
C21_TypeDistribution ==
    (validated.run /\ validated.res.ok) =>
        KeyedByTrimmedLowerType(UsableRows(content))

\* the positions of the numeric columns of the file
NumericColumns(csv) == SubsetColumns(ReadCsv(csv).columns, NumericKeys)

\* the data rows of the file with a missing flowrate, pressure or temperature
MissingRows(csv) ==
    {r \in 1..Len(csv.rows) : \E i \in NumericColumns(csv) : csv.rows[r][i].k = "nan"}

\* the other data rows in which one of the three is text that is no number
NonNumericRows(csv) ==
    {r \in 1..Len(csv.rows) \ MissingRows(csv) :
        \E i \in NumericColumns(csv) : csv.rows[r][i].k = "str"}

\* the i-th smallest member of a set of row numbers
Ith(rows, i) == CHOOSE r \in rows : Cardinality({q \in rows : q <= r}) = i

\* the positions of the warnings of one kind
WarningsOf(ws, kind) == {i \in DOMAIN ws : ws[i].kind = kind}

\* the warnings hold one warning of that kind carrying n when n > 0, and none
\* when n = 0
WarnsExactly(ws, kind, n) ==
    /\ Cardinality(WarningsOf(ws, kind)) = IF n > 0 THEN 1 ELSE 0
    /\ \A i \in WarningsOf(ws, kind) : ws[i].n = n

\* C22: a validation that returns has dropped exactly the rows with a missing
\* flowrate, pressure or temperature and exactly the remaining rows with a
\* non-numeric one; every other row is in the table, in the file's order,
\* whether or not its name or type is missing; each drop has its own warning,
\* with its count, if and only if it dropped a row
C22_ExactDrops ==
    (validated.run /\ validated.res.ok) =>
        LET rows == 1..Len(content.rows)
            kept == rows \ (MissingRows(content) \cup NonNumericRows(content))
            table == validated.res.table
        IN  /\ Len(table) = Cardinality(kept)
            /\ \A i \in 1..Len(table) :
                  table[i] = CleanRow(ReadCsv(content).columns,
                                      content.rows[Ith(kept, i)])
            /\ WarnsExactly(validated.res.warnings, "dropped_missing",
                            Cardinality(MissingRows(content)))
            /\ WarnsExactly(validated.res.warnings, "dropped_non_numeric",
                            Cardinality(NonNumericRows(content)))

\* a row with an empty flowrate was dropped, with its warning, and a row with
\* neither name nor type was kept
C22_Witness ==
    /\ validated.run /\ validated.res.ok
    /\ Len(content.rows) = 2
    /\ MissingRows(content) = {1}
    /\ content.rows[2][TheColumn(ReadCsv(content).columns, "equipment_type")] = NaCell
    /\ content.rows[2][TheColumn(ReadCsv(content).columns, "equipment_name")] = NaCell
    /\ Len(validated.res.table) = 1
    /\ validated.res.warnings = <<Warning("dropped_missing", 1)>>

\* a row with a non-numeric flowrate was dropped, with its warning, and a row
\* was kept
C22_NonNumericDropped ==
    /\ validated.run /\ validated.res.ok
    /\ NonNumericRows(content) # {}
    /\ Len(validated.res.table) = 1
    /\ validated.res.warnings = <<Warning("dropped_non_numeric", 1)>>

\* the order in which the validator appends its warnings
WarningOrder ==
    <<"dropped_missing", "dropped_non_numeric", "negative_flowrate", "negative_pressure">>

WarningRank(kind) == CHOOSE i \in 1..Len(WarningOrder) : WarningOrder[i] = kind

\* the file made of the rows of csv that the validator keeps
WithoutDroppedRows(csv) ==
    LET kept == UsableRows(csv)
    IN  Csv(csv.header, [i \in 1..Cardinality(kept) |-> csv.rows[Ith(kept, i)]])

\* C23: the warnings of a validation that returns are a subsequence of
\* (missing-values drop, non-numeric drop, negative flowrate, negative
\* pressure); the negative-flowrate (negative-pressure) warning is there iff a
\* row of the table has a negative flowrate (pressure); nothing warns of a
\* negative temperature; and, when rows are left, the file without its dropped
\* rows, which has no drop warning, gives the same table, statistics and
\* stored dataset
C23_WarningsOrderedAndNonFatal ==
    (validated.run /\ validated.res.ok) =>
        LET ws == validated.res.warnings
            table == validated.res.table
            clean == parse_and_validate_csv(WithoutDroppedRows(content))
        IN  /\ \A i \in DOMAIN ws :
                  \E j \in 1..Len(WarningOrder) : ws[i].kind = WarningOrder[j]
            /\ \A i \in DOMAIN ws : \A j \in DOMAIN ws :
                  i < j => WarningRank(ws[i].kind) < WarningRank(ws[j].kind)
            /\ WarningsOf(ws, "negative_flowrate") # {}
                  <=> \E r \in DOMAIN table : IsNegative(table[r].flowrate)
            /\ WarningsOf(ws, "negative_pressure") # {}
                  <=> \E r \in DOMAIN table : IsNegative(table[r].pressure)
            /\ table # <<>> =>
                  /\ clean.ok
                  /\ WarningsOf(clean.warnings, "dropped_missing") = {}
                  /\ WarningsOf(clean.warnings, "dropped_non_numeric") = {}
                  /\ clean.table = table
                  /\ compute_statistics(clean.table) = compute_statistics(table)
                  /\ Ingested(EmptyStore, "alice", WithoutDroppedRows(content), 1)
                        = Ingested(EmptyStore, "alice", content, 1)

\* a row was dropped for its empty flowrate and the row kept has a negative
\* flowrate, pressure and temperature: three warnings, in the validator's
\* order, and none of the temperature
C23_Witness ==
    /\ validated.run /\ validated.res.ok
    /\ MissingRows(content) = {2}
    /\ \E r \in DOMAIN validated.res.table :
          IsNegative(validated.res.table[r].temperature)
    /\ validated.res.warnings =
          <<Warning("dropped_missing", 1), Warning("negative_flowrate", 0),
            Warning("negative_pressure", 0)>>

\* the only negative value of the table is a temperature, and nothing warns
C23_NegativeTemperatureSilent ==
    /\ validated.run /\ validated.res.ok
    /\ \E r \in DOMAIN validated.res.table :
          IsNegative(validated.res.table[r].temperature)
    /\ validated.res.warnings = <<>>

\* C24: the first failing check decides the error: a file without data rows
\* fails as 'empty' whatever its header is; a file with rows that lacks a
\* required column fails on the columns, before any row is dropped; and a
\* file with the columns whose every row has a missing numeric value fails
\* as 'no rows remain', returning no warning
C24_FirstFailingCheck ==
    (validated.run /\ content.parsable) =>
        LET res == validated.res
            rows == 1..Len(content.rows)
        IN  /\ rows = {} =>
                  /\ ~res.ok
                  /\ res.exc = "CSVValidationError"
                  /\ res.error = "empty"
            /\ (rows # {} /\ Lacking(content) # {}) =>
                  /\ ~res.ok
                  /\ res.exc = "CSVValidationError"
                  /\ res.error = "missing_columns"
                  /\ res.warnings = <<>>
            /\ (rows # {} /\ Lacking(content) = {} /\ MissingRows(content) = rows) =>
                  /\ ~res.ok
                  /\ res.exc = "CSVValidationError"
                  /\ res.error = "no_rows"
                  /\ res.warnings = <<>>
                  /\ res.table = <<>>

\* a file with the header foo,bar,baz and no data row failed as 'empty', not
\* on its columns
C24_Witness ==
    /\ validated.run
    /\ content.parsable
    /\ content.rows = <<>>
    /\ Lacking(content) = RequiredKeys
    /\ validated.res.error = "empty"

\* a file lacking temperature, with a row whose flowrate is empty, failed on
\* its columns
C24_ColumnsBeforeDrops ==
    /\ validated.run
    /\ content.parsable
    /\ MissingRows(content) # {}
    /\ validated.res.error = "missing_columns"

\* a file with two rows, each with a missing numeric value, failed as 'no rows
\* remain'
C24_NoRowsRemain ==
    /\ validated.run
    /\ Len(content.rows) = 2
    /\ MissingRows(content) = {1, 2}
    /\ validated.res.error = "no_rows"

\* C25: the validator either returns a table and warnings or fails with
\* CSVValidationError, never with another exception, also when two headers
\* normalize to one canonical field; a table it returns has exactly the five
\* canonical columns
C25_OnlyValidationErrors ==
    validated.run =>
        /\ validated.res.ok \/ validated.res.exc = "CSVValidationError"
        /\ validated.res.ok =>
              \A r \in DOMAIN validated.res.table :
                  DOMAIN validated.res.table[r] = RequiredKeys

\* the file is over 10 MB, or its name does not end in .csv in any letter
\* case, or its bytes are not UTF-8
Inadmissible(file) ==
    \/ file.size > 10 * 1024 * 1024
    \/ ~EndsWith(Lower(NameText[file.name]), <<".","c","s","v">>)
    \/ ~file.utf8

InadmissibleFiles == {file \in Files : Inadmissible(file)}

\* C26: the upload of a file over 10 MB, or not named *.csv (in any letter
\* case), or not UTF-8 is answered 400 without any ingestion being started
\* and leaves the store as it was; every other file, one of exactly 10 MB
\* included, is handed to the ingestion
C26_UploadGate ==
    [][\A p \in Workers, user \in Users, file \in Files, csv \in UploadMenu :
          (requests' # requests /\ Post(p, user, file, csv)) =>
             IF file \in InadmissibleFiles
             THEN /\ resp'[p].status = 400
                  /\ resp'[p].exc \in {"ValidationError", "UnicodeDecodeError"}
                  /\ db' = db /\ txn' = txn /\ lock' = lock
                  /\ pc' = pc /\ req' = req
             ELSE IF Validated[csv].ok
             THEN /\ pc'[p] = "create"
                  /\ req'[p] = [user |-> user, filename |-> file.name, csv |-> csv]
             ELSE resp'[p].exc = Validated[csv].exc]_vars

\* a file named *.txt, or over 10 MB, was refused while the store held
\* datasets, and a file of exactly 10 MB named DATA.CSV has been ingested
C26_Witness ==
    /\ \E p \in Workers : resp[p] = Response(400, "ValidationError")
    /\ \E d \in db.datasets : d.id > SampleCount /\ d.filename = "DATA.CSV"

\* a file that is not UTF-8 was refused
C26_NotDecodable ==
    \E p \in Workers : resp[p] = Response(400, "UnicodeDecodeError")

\* the datasets of the store that user does not own, and their records
OfOthers(st, user) ==
    [datasets |-> {d \in st.datasets : d.user # user},
     records |-> {r \in st.records :
                     \E d \in st.datasets : d.id = r.dataset /\ d.user # user}]

\* C27: the retention pass of an ingestion by owner A counts and evicts
\* datasets of A only: every step of the ingestion, in its transaction and at
\* its commit, leaves the datasets and records of every other owner as they
\* were, whatever their timestamps, and the pass finds an excess exactly when
\* A holds more than MAX_DATASETS_RETAINED datasets
C27_EvictionScopedToOwner ==
    [][\A p \in Workers :
          (pc[p] # "idle" /\ pc'[p] # pc[p]) =>
             LET owner == req[p].user
                 before == IF pc[p] = "create" THEN db ELSE txn[p]
             IN  /\ OfOthers(db', owner) = OfOthers(db, owner)
                 /\ pc'[p] # "idle" =>
                       OfOthers(txn'[p], owner) = OfOthers(before, owner)
                 /\ pc[p] = "enforce" =>
                       (retention'.excess <=>
                           Cardinality({d \in txn[p].datasets : d.user = owner})
                              > MAX_DATASETS_RETAINED)]_vars

\* alice's upload went through its retention pass and committed while admin
\* held MAX_DATASETS_RETAINED older datasets, all of which are still stored
C27_Witness ==
    /\ retention = Retention("insert", FALSE)
    /\ \E d \in db.datasets : d.user = "alice" /\ d.id > SampleCount
    /\ OfOthers(db, "alice") = OfOthers(SeededStore, "alice")
    /\ Cardinality(OfOthers(db, "alice").datasets) = MAX_DATASETS_RETAINED
    /\ \A d \in OfOthers(db, "alice").datasets :
          \A e \in db.datasets : e.user = "alice" => d.uploaded_at < e.uploaded_at

\* admin's retention pass found an excess while alice held a dataset
C27_ExcessBesideOtherOwner ==
    /\ retention = Retention("insert", TRUE)
    /\ \E d \in db.datasets : d.user = "alice"

\* C28: the retention pass that the insertion of a dataset triggers never
\* selects that dataset and leaves it in place, so that the ingestion goes on
\* and, once committed, the new dataset is stored with all of its records,
\* also when its timestamp is not later than those of the owner's datasets
C28_NewDatasetSurvivesOwnPass ==
    [][\A p \in Workers :
          /\ (pc[p] = "enforce" /\ pc'[p] # "enforce") =>
                /\ \A ex \in SlicedFrom(txn[p], req[p].user, MAX_DATASETS_RETAINED) :
                      NewId(p) \notin Ids(ex)
                /\ pc'[p] = "bulk"
                /\ NewId(p) \in Ids(txn'[p].datasets)
          /\ Commits(p) =>
                /\ NewId(p) \in Ids(UserDatasets(db', req[p].user))
                /\ Cardinality(RecordsOf(db', NewId(p))) =
                      DatasetById(db', NewId(p)).total_records]_vars

\* worker p's ingestion fails in this step, after it inserted its dataset
FailsAfterInsert(p) ==
    /\ pc[p] \in {"enforce", "bulk", "commit"}
    /\ pc'[p] = "idle"
    /\ resp'[p].status # 201

\* C29: when an ingestion fails after the insert of its dataset, the
\* transaction is rolled back: the new dataset and its records do not exist,
\* and every dataset the retention pass had selected and whose records it had
\* deleted is stored with all of its records, as is everything else
C29_RollbackAfterInsert ==
    [][\A p \in Workers :
          FailsAfterInsert(p) =>
             /\ NewId(p) \in Ids(txn[p].datasets)
             /\ NewId(p) \notin Ids(db'.datasets)
             /\ RecordsOf(db', NewId(p)) = {}
             /\ \A ex \in SlicedFrom(txn[p], req[p].user, MAX_DATASETS_RETAINED) :
                   \A d \in ex :
                      /\ d \in db'.datasets
                      /\ RecordsOf(db', d.id) = RecordsOf(db, d.id)
                      /\ Cardinality(RecordsOf(db', d.id)) = d.total_records
             /\ db' = db
             /\ txn'[p] = NoTxn
             /\ lock' = 0]_vars

\* an ingestion failed in its retention pass, which had found a dataset beyond
\* the limit, and the store is the seeded store, whole
C29_Witness ==
    /\ \E p \in Workers : resp[p] = Response(500, "TypeError") /\ pc[p] = "idle"
    /\ retention = Retention("insert", TRUE)
    /\ db = SeededStore
    /\ \A d \in db.datasets : Cardinality(RecordsOf(db, d.id)) = d.total_records

=============================================================================
